---- MODULE Spec2Model ----
(***************************************************************************)
(* Model of the flask-todo-cdk request pipeline.                           *)
(*                                                                         *)
(* The repository holds two implementations of the same HTTP API:          *)
(*   - the single-file application  src/lambda/todo_api.py   ("monolith"), *)
(*   - the package  src/lambda/todo_api/{todo_api,models,database}.py      *)
(*     ("package").                                                        *)
(* A deployment runs one of them; `impl` records which one, and `table`    *)
(* is the DynamoDB table it talks to.  Every handler is one action.       *)
(*                                                                         *)
(* JSON values are records [type, val]; a string's val is the sequence of  *)
(* its characters, so that strip(), lower() and len() are computed.        *)
(***************************************************************************)
EXTENDS Integers, Sequences, FiniteSets, TLC

VARIABLES impl, layout, calls, table, clock, born, fresh, deleted, resp

vars == <<impl, layout, calls, table, clock, born, fresh, deleted, resp>>

(* ------------------------------ bounds -------------------------------- *)
MaxIds == 2
MaxClock == 2
MaxClients == 2

Ids == 1..MaxIds

(* --------------------------- program constants ------------------------ *)
MAX_TITLE_LENGTH == 200
MAX_DESCRIPTION_LENGTH == 1000

(* ------------------------------ JSON values --------------------------- *)
S(chars) == [type |-> "string", val |-> chars]
Null == [type |-> "null", val |-> <<>>]
Num(n) == [type |-> "number", val |-> <<n>>]
Obj(f) == [type |-> "object", val |-> f]

pending == <<"p", "e", "n", "d", "i", "n", "g">>
completed == <<"c", "o", "m", "p", "l", "e", "t", "e", "d">>
archived == <<"a", "r", "c", "h", "i", "v", "e", "d">>

VALID_STATUSES == <<pending, completed, archived>>

Range(seq) == {seq[i] : i \in DOMAIN seq}

(* Python truthiness of a decoded JSON value *)
Truthy(v) ==
    CASE v.type = "null" -> FALSE
      [] v.type = "number" -> v.val # <<0>>
      [] v.type = "object" -> DOMAIN v.val # {}
      [] OTHER -> v.val # <<>>

(* Python len(): defined for str, list and dict only *)
HasLen(v) == v.type \in {"string", "array", "object"}
PyLen(v) == IF v.type = "object" THEN Cardinality(DOMAIN v.val) ELSE Len(v.val)

IsSpace(c) == c \in {" ", "\t", "\n"}

RECURSIVE lstrip(_)
lstrip(s) == IF s # <<>> /\ IsSpace(Head(s)) THEN lstrip(Tail(s)) ELSE s

RECURSIVE rstrip(_)
rstrip(s) ==
    IF s # <<>> /\ IsSpace(s[Len(s)]) THEN rstrip(SubSeq(s, 1, Len(s) - 1)) ELSE s

(* str.strip() *)
strip(s) == rstrip(lstrip(s))

LowerChar(c) ==
    CASE c = "P" -> "p" [] c = "E" -> "e" [] c = "N" -> "n" [] c = "D" -> "d"
      [] c = "I" -> "i" [] c = "G" -> "g" [] c = "A" -> "a" [] c = "B" -> "b"
      [] OTHER -> c

(* str.lower() *)
lower(s) == [i \in DOMAIN s |-> LowerChar(s[i])]

(* dict.get(key, default) *)
DictGet(d, key, default) == IF key \in DOMAIN d THEN d[key] ELSE default

(* ------------------------------ DynamoDB ------------------------------ *)
(* The table maps the partition key todo_id to the stored item.           *)
KeyOf(item) == item.todo_id.val[1]

(* mutant: the write drops attributes holding the empty string *)
put_item_drop_empty(t, item) ==
    LET kept == [f \in {g \in DOMAIN item : item[g] # S(<<>>)} |-> item[f]]
    IN  [k \in DOMAIN t \cup {KeyOf(item)} |-> IF k = KeyOf(item) THEN kept ELSE t[k]]

put_item(t, item) ==
    [k \in DOMAIN t \cup {KeyOf(item)} |-> IF k = KeyOf(item) THEN item ELSE t[k]]

delete_item(t, key) == [k \in DOMAIN t \ {key} |-> t[k]]

(* mutant: SET writes only the attributes the item does not have yet *)
update_item_if_not_exists(t, key, sets) ==
    LET old == IF key \in DOMAIN t THEN t[key] ELSE [todo_id |-> S(<<key>>)]
        new == [f \in DOMAIN old \cup DOMAIN sets |->
                   IF f \in DOMAIN old THEN old[f] ELSE sets[f]]
    IN  [k \in DOMAIN t \cup {key} |-> IF k = key THEN new ELSE t[k]]

(* UpdateItem with a SET expression: an upsert on the key *)
update_item(t, key, sets) ==
    LET old == IF key \in DOMAIN t THEN t[key] ELSE [todo_id |-> S(<<key>>)]
        new == [f \in DOMAIN old \cup DOMAIN sets |->
                   IF f \in DOMAIN sets THEN sets[f] ELSE old[f]]
    IN  [k \in DOMAIN t \cup {key} |-> IF k = key THEN new ELSE t[k]]

(* datetime.utcnow().isoformat(): the timestamp string of a clock reading *)
Timestamp(now) == S(<<now>>)
TimeOf(v) == v.val[1]

(* ------------------------ responses and history ----------------------- *)
NoItem == <<>>

(* resp is the last request together with the response it received.      *)
(* pre is the table as the request found it, at the clock reading the     *)
(* request saw; gone tells whether a delete of the requested id had       *)
(* already succeeded when the request arrived.                            *)
Response(op, id, request, status, error, item) ==
    [op |-> op, id |-> id, request |-> request, status |-> status,
     error |-> error, item |-> item, pre |-> table, at |-> clock,
     gone |-> id \in deleted]

NoRequest == [is_json |-> TRUE, json |-> Null]

(* History kept for the properties: born[id] is the created_at that the   *)
(* create request generating id assigned; fresh[id] is the item that      *)
(* create returned, kept while no later request has written to id;        *)
(* deleted is the set of ids whose delete request returned 200.           *)
Record(h, id, v) == [k \in DOMAIN h \cup {id} |-> IF k = id THEN v ELSE h[k]]
Forget(h, id) == [k \in DOMAIN h \ {id} |-> h[k]]

(* =============== monolith: src/lambda/todo_api.py ===================== *)

Invalid(msg) == [kind |-> "invalid", error |-> msg]
Raised == [kind |-> "raised"]
Valid(data) == [kind |-> "ok", data |-> data]

(* mutant: a body without a title gets a default one *)
validate_todo_data_default_title(data) ==
    IF data.type # "object" THEN Invalid("Request body must be a JSON object")
    ELSE
    LET rawTitle == DictGet(data.val, "title", S(<<"u">>))
        rawDescription == DictGet(data.val, "description", S(<<>>))
        rawStatus == DictGet(data.val, "status", S(pending))
    IN  IF rawTitle.type # "string" THEN Raised
        ELSE IF strip(rawTitle.val) = <<>> THEN Invalid("Title is required")
        ELSE IF Len(strip(rawTitle.val)) > MAX_TITLE_LENGTH
             THEN Invalid("Title must be 200 characters or less")
        ELSE IF rawDescription.type # "string" THEN Raised
        ELSE IF Len(strip(rawDescription.val)) > MAX_DESCRIPTION_LENGTH
             THEN Invalid("Description must be 1000 characters or less")
        ELSE IF rawStatus.type # "string" THEN Raised
        ELSE IF lower(rawStatus.val) \notin Range(VALID_STATUSES)
             THEN Invalid("Status must be one of: pending, completed, archived")
        ELSE Valid([title |-> S(strip(rawTitle.val)),
                    description |-> S(strip(rawDescription.val)),
                    status |-> S(lower(rawStatus.val))])

validate_todo_data(data) ==
    IF data.type # "object" THEN Invalid("Request body must be a JSON object")
    ELSE
    LET rawTitle == DictGet(data.val, "title", S(<<>>))
        rawDescription == DictGet(data.val, "description", S(<<>>))
        rawStatus == DictGet(data.val, "status", S(pending))
    IN  IF rawTitle.type # "string" THEN Raised
        ELSE IF strip(rawTitle.val) = <<>> THEN Invalid("Title is required")
        ELSE IF Len(strip(rawTitle.val)) > MAX_TITLE_LENGTH
             THEN Invalid("Title must be 200 characters or less")
        ELSE IF rawDescription.type # "string" THEN Raised
        ELSE IF Len(strip(rawDescription.val)) > MAX_DESCRIPTION_LENGTH
             THEN Invalid("Description must be 1000 characters or less")
        ELSE IF rawStatus.type # "string" THEN Raised
        ELSE IF lower(rawStatus.val) \notin Range(VALID_STATUSES)
             THEN Invalid("Status must be one of: pending, completed, archived")
        ELSE Valid([title |-> S(strip(rawTitle.val)),
                    description |-> S(strip(rawDescription.val)),
                    status |-> S(lower(rawStatus.val))])

(* mutant: the two timestamps come from two readings of the clock *)
create_todo_item_two_readings(todo_id, validated_data, now) ==
    [todo_id |-> S(<<todo_id>>),
     title |-> validated_data.title,
     description |-> validated_data.description,
     status |-> validated_data.status,
     created_at |-> Timestamp(now),
     updated_at |-> Timestamp(now + 1)]

create_todo_item(todo_id, validated_data, now) ==
    [todo_id |-> S(<<todo_id>>),
     title |-> validated_data.title,
     description |-> validated_data.description,
     status |-> validated_data.status,
     created_at |-> Timestamp(now),
     updated_at |-> Timestamp(now)]

(* uuid.uuid4(): an id that no earlier call returned.  Ids are opaque, so *)
(* the generator hands them out in increasing order.                      *)
uuid4 == {i \in Ids : i \notin DOMAIN born /\ \A j \in 1..(i - 1) : j \in DOMAIN born}

Unchanged == UNCHANGED <<impl, layout, calls, table, clock, born, fresh, deleted>>

create_todo(request) ==
    /\ impl = "monolith"
    /\ IF ~request.is_json
       THEN /\ resp' = Response("create", 0, request, 400,
                                "Content-Type must be application/json", NoItem)
            /\ Unchanged
       ELSE LET validated == validate_todo_data(request.json) IN
            CASE validated.kind = "invalid" ->
                   /\ resp' = Response("create", 0, request, 400, validated.error, NoItem)
                   /\ Unchanged
              [] validated.kind = "raised" ->
                   /\ resp' = Response("create", 0, request, 500,
                                       "Failed to create todo", NoItem)
                   /\ Unchanged
              [] validated.kind = "ok" ->
                   \E todo_id \in uuid4 :
                     LET todo_item == create_todo_item(todo_id, validated.data, clock) IN
                     /\ table' = put_item(table, todo_item)
                     /\ born' = Record(born, todo_id, todo_item.created_at)
                     /\ fresh' = Record(fresh, todo_id, todo_item)
                     /\ resp' = Response("create", todo_id, request, 201, "", todo_item)
                     /\ UNCHANGED <<impl, layout, calls, clock, deleted>>

get_todo(todo_id) ==
    /\ impl = "monolith"
    /\ IF todo_id \notin DOMAIN table
       THEN resp' = Response("get", todo_id, NoRequest, 404, "Todo not found", NoItem)
       ELSE resp' = Response("get", todo_id, NoRequest, 200, "", table[todo_id])
    /\ Unchanged

(* mutant: the replacement record is stamped like a new one *)
updated_todo_restamped(todo_id, validated_data, existing_todo, now) ==
    [todo_id |-> S(<<todo_id>>),
     title |-> validated_data.title,
     description |-> validated_data.description,
     status |-> validated_data.status,
     created_at |-> Timestamp(now),
     updated_at |-> Timestamp(now)]

updated_todo(todo_id, validated_data, existing_todo, now) ==
    [todo_id |-> S(<<todo_id>>),
     title |-> validated_data.title,
     description |-> validated_data.description,
     status |-> validated_data.status,
     created_at |-> existing_todo.created_at,
     updated_at |-> Timestamp(now)]

update_todo(todo_id, request) ==
    /\ impl = "monolith"
    /\ IF ~request.is_json
       THEN /\ resp' = Response("update", todo_id, request, 400,
                                "Content-Type must be application/json", NoItem)
            /\ Unchanged
       ELSE LET validated == validate_todo_data(request.json) IN
            CASE validated.kind = "invalid" ->
                   /\ resp' = Response("update", todo_id, request, 400,
                                       validated.error, NoItem)
                   /\ Unchanged
              [] validated.kind = "raised" ->
                   /\ resp' = Response("update", todo_id, request, 500,
                                       "Failed to update todo", NoItem)
                   /\ Unchanged
              [] validated.kind = "ok" /\ todo_id \notin DOMAIN table ->
                   /\ resp' = Response("update", todo_id, request, 404,
                                       "Todo not found", NoItem)
                   /\ Unchanged
              [] validated.kind = "ok" /\ todo_id \in DOMAIN table ->
                   LET item == updated_todo(todo_id, validated.data, table[todo_id], clock) IN
                   /\ table' = put_item(table, item)
                   /\ fresh' = Forget(fresh, todo_id)
                   /\ resp' = Response("update", todo_id, request, 200, "", item)
                   /\ UNCHANGED <<impl, layout, calls, clock, born, deleted>>

(* mutant: the delete is issued without the existence check *)
delete_todo_unchecked(todo_id) ==
    /\ impl = "monolith"
    /\ table' = delete_item(table, todo_id)
    /\ fresh' = Forget(fresh, todo_id)
    /\ deleted' = deleted \cup {todo_id}
    /\ resp' = Response("delete", todo_id, NoRequest, 200, "", NoItem)
    /\ UNCHANGED <<impl, layout, calls, clock, born>>

delete_todo(todo_id) ==
    /\ impl = "monolith"
    /\ IF todo_id \notin DOMAIN table
       THEN /\ resp' = Response("delete", todo_id, NoRequest, 404, "Todo not found", NoItem)
            /\ Unchanged
       ELSE /\ table' = delete_item(table, todo_id)
            /\ fresh' = Forget(fresh, todo_id)
            /\ deleted' = deleted \cup {todo_id}
            /\ resp' = Response("delete", todo_id, NoRequest, 200, "", NoItem)
            /\ UNCHANGED <<impl, layout, calls, clock, born>>

(* ===== package: src/lambda/todo_api/{models,database,todo_api}.py ===== *)

(* Python `key in data` for the decoded bodies of this model: a mapping   *)
(* is asked for the key, a number has no membership test, and no string   *)
(* or list body drawn here contains a field name.                         *)
CanContain(data) == data.type # "number" /\ data.type # "null"
Contains(data, key) == data.type = "object" /\ key \in DOMAIN data.val

(* mutant: any string passes for a status *)
InValidStatuses_any_string(v) == v.type = "string"

InValidStatuses(v) == v.type = "string" /\ v.val \in Range(VALID_STATUSES)

TodoModel_validate(data, is_update) ==
    IF ~CanContain(data) THEN Raised
    ELSE IF ~is_update /\ ~Contains(data, "title") THEN Invalid("Title is required")
    ELSE IF Contains(data, "title") /\ Truthy(data.val.title) /\ ~HasLen(data.val.title)
         THEN Raised
    ELSE IF Contains(data, "title")
            /\ (~Truthy(data.val.title) \/ PyLen(data.val.title) > 200)
         THEN Invalid("Title must be between 1 and 200 characters")
    ELSE IF Contains(data, "description") /\ Truthy(data.val.description)
            /\ ~HasLen(data.val.description)
         THEN Raised
    ELSE IF Contains(data, "description") /\ Truthy(data.val.description)
            /\ PyLen(data.val.description) > 1000
         THEN Invalid("Description must be less than 1000 characters")
    ELSE IF Contains(data, "status") /\ ~InValidStatuses(data.val.status)
         THEN Invalid("Status must be one of: pending, completed, archived")
    ELSE Valid(data)

(* mutant: an id in the body is taken over *)
TodoModel_from_dict_client_id(data, todo_id, timestamp) ==
    [todo_id |-> DictGet(data.val, "todo_id", S(<<todo_id>>)),
     title |-> data.val.title,
     description |-> DictGet(data.val, "description", S(<<>>)),
     status |-> DictGet(data.val, "status", S(pending)),
     created_at |-> Timestamp(timestamp),
     updated_at |-> Timestamp(timestamp)]

TodoModel_from_dict(data, todo_id, timestamp) ==
    [todo_id |-> S(<<todo_id>>),
     title |-> data.val.title,
     description |-> DictGet(data.val, "description", S(<<>>)),
     status |-> DictGet(data.val, "status", S(pending)),
     created_at |-> Timestamp(timestamp),
     updated_at |-> Timestamp(timestamp)]

(* TodoDatabase.update_todo: SET every supplied field but the two kept    *)
(* ones, and return the item as the store holds it afterwards.            *)
UpdateSet(updates) ==
    [f \in DOMAIN updates \ {"todo_id", "created_at"} |-> updates[f]]

TodoDatabase_update_todo(t, todo_id, updates) ==
    update_item(t, todo_id, UpdateSet(updates))

(* data['updated_at'] = TodoModel.get_timestamp() *)
(* mutant: the timestamp is only a default for a body without one *)
WithUpdatedAt_default(d, now) ==
    [f \in DOMAIN d \cup {"updated_at"} |->
        IF f \in DOMAIN d THEN d[f] ELSE Timestamp(now)]

WithUpdatedAt(d, now) ==
    [f \in DOMAIN d \cup {"updated_at"} |->
        IF f = "updated_at" THEN Timestamp(now) ELSE d[f]]

pkg_create_todo(request) ==
    /\ impl = "package"
    /\ request.is_json
    /\ LET data == request.json
           validated == TodoModel_validate(data, FALSE) IN
       CASE ~Truthy(data) ->
              /\ resp' = Response("create", 0, request, 400, "No data provided", NoItem)
              /\ Unchanged
         [] Truthy(data) /\ validated.kind = "invalid" ->
              /\ resp' = Response("create", 0, request, 400, validated.error, NoItem)
              /\ Unchanged
         [] Truthy(data) /\ validated.kind = "raised" ->
              /\ resp' = Response("create", 0, request, 500, "Internal server error", NoItem)
              /\ Unchanged
         [] Truthy(data) /\ validated.kind = "ok" ->
              \E todo_id \in uuid4 :
                LET todo_item == TodoModel_from_dict(data, todo_id, clock) IN
                /\ table' = put_item(table, todo_item)
                /\ born' = Record(born, todo_id, todo_item.created_at)
                /\ fresh' = Record(fresh, todo_id, todo_item)
                /\ resp' = Response("create", todo_id, request, 201, "", todo_item)
                /\ UNCHANGED <<impl, layout, calls, clock, deleted>>

pkg_get_todo(todo_id) ==
    /\ impl = "package"
    /\ IF todo_id \notin DOMAIN table
       THEN resp' = Response("get", todo_id, NoRequest, 404, "Todo not found", NoItem)
       ELSE resp' = Response("get", todo_id, NoRequest, 200, "", table[todo_id])
    /\ Unchanged

(* mutant: the update is written without the existence check *)
pkg_update_todo_unchecked(todo_id, request) ==
    /\ impl = "package"
    /\ request.is_json
    /\ Truthy(request.json)
    /\ request.json.type = "object"
    /\ TodoModel_validate(request.json, TRUE).kind = "ok"
    /\ LET t == TodoDatabase_update_todo(table, todo_id,
                                         WithUpdatedAt(request.json.val, clock)) IN
       /\ table' = t
       /\ fresh' = Forget(fresh, todo_id)
       /\ resp' = Response("update", todo_id, request, 200, "", t[todo_id])
       /\ UNCHANGED <<impl, layout, calls, clock, born, deleted>>

pkg_update_todo(todo_id, request) ==
    /\ impl = "package"
    /\ request.is_json
    /\ LET data == request.json
           validated == TodoModel_validate(data, TRUE) IN
       CASE ~Truthy(data) ->
              /\ resp' = Response("update", todo_id, request, 400, "No data provided", NoItem)
              /\ Unchanged
         [] Truthy(data) /\ validated.kind = "invalid" ->
              /\ resp' = Response("update", todo_id, request, 400, validated.error, NoItem)
              /\ Unchanged
         [] Truthy(data) /\ validated.kind = "raised" ->
              /\ resp' = Response("update", todo_id, request, 500,
                                  "Internal server error", NoItem)
              /\ Unchanged
         [] Truthy(data) /\ validated.kind = "ok" /\ todo_id \notin DOMAIN table ->
              /\ resp' = Response("update", todo_id, request, 404, "Todo not found", NoItem)
              /\ Unchanged
         [] Truthy(data) /\ validated.kind = "ok" /\ todo_id \in DOMAIN table
               /\ data.type # "object" ->
              /\ resp' = Response("update", todo_id, request, 500,
                                  "Internal server error", NoItem)
              /\ Unchanged
         [] Truthy(data) /\ validated.kind = "ok" /\ todo_id \in DOMAIN table
               /\ data.type = "object" ->
              LET t == TodoDatabase_update_todo(table, todo_id,
                                                WithUpdatedAt(data.val, clock)) IN
              /\ table' = t
              /\ fresh' = Forget(fresh, todo_id)
              /\ resp' = Response("update", todo_id, request, 200, "", t[todo_id])
              /\ UNCHANGED <<impl, layout, calls, clock, born, deleted>>

pkg_delete_todo(todo_id) ==
    /\ impl = "package"
    /\ IF todo_id \notin DOMAIN table
       THEN /\ resp' = Response("delete", todo_id, NoRequest, 404, "Todo not found", NoItem)
            /\ Unchanged
       ELSE /\ table' = delete_item(table, todo_id)
            /\ fresh' = Forget(fresh, todo_id)
            /\ deleted' = deleted \cup {todo_id}
            /\ resp' = Response("delete", todo_id, NoRequest, 200, "", NoItem)
            /\ UNCHANGED <<impl, layout, calls, clock, born>>

(* ------------------------------ requests ------------------------------ *)
A == <<"a">>
PaddedB == <<" ", "b", " ">>
PaddedD == <<" ", "d", " ">>
Bogus == <<"b", "o", "g", "u", "s">>

(* decoded JSON bodies the clients send; the last one carries the three  *)
(* server-owned fields, with the id of the first item ever created        *)
ObjectBodies ==
    {[title |-> S(A)],
     [title |-> S(PaddedB), description |-> S(PaddedD), status |-> S(completed)],
     [status |-> S(completed)],
     [title |-> S(A), status |-> S(Bogus)],
     [title |-> Num(7)],
     <<>>,
     [title |-> S(A), todo_id |-> S(<<1>>),
      created_at |-> Timestamp(0), updated_at |-> Timestamp(0)]}

Bodies == {Obj(f) : f \in ObjectBodies}

Requests == {[is_json |-> TRUE, json |-> b] : b \in Bodies} \cup {[is_json |-> FALSE, json |-> Null]}

(* ------------------------ requests in flight -------------------------- *)
(* calls[c] is the request that client c has in flight, handled step by   *)
(* step: pc names the store operation the handler is about to issue, ops  *)
(* lists the store operations issued so far with their outcome, pending   *)
(* is what the next write will store, found is what the existence check   *)
(* read, and out lists the responses sent.                                *)
Clients == 1..MaxClients

NoFault == [kind |-> "none", code |-> "", text |-> ""]

Idle == [op |-> "idle", id |-> 0, request |-> NoRequest, args |-> <<>>, pc |-> "idle",
         ops |-> <<>>, pending |-> NoItem, found |-> NoItem, out |-> <<>>]
NoCalls == [c \in Clients |-> Idle]

(* time passes between requests; the clock never goes backwards *)
Tick ==
    /\ clock < MaxClock
    /\ clock' = clock + 1
    /\ UNCHANGED <<impl, layout, calls, table, born, fresh, deleted, resp>>

Init ==
    /\ impl \in {"monolith", "package"}
    /\ layout = [i \in Ids |-> i]
    /\ calls = NoCalls
    /\ table = <<>>
    /\ clock = 1
    /\ born = <<>>
    /\ fresh = <<>>
    /\ deleted = {}
    /\ resp = [op |-> "none", id |-> 0, request |-> NoRequest, status |-> 0,
               error |-> "", item |-> NoItem, pre |-> <<>>, at |-> 1, gone |-> FALSE]

Next ==
    \/ Tick
    \/ \E request \in Requests : create_todo(request)
    \/ \E todo_id \in Ids : get_todo(todo_id)
    \/ \E todo_id \in Ids, request \in Requests : update_todo(todo_id, request)
    \/ \E todo_id \in Ids : delete_todo(todo_id)
    \/ \E request \in Requests : pkg_create_todo(request)
    \/ \E todo_id \in Ids : pkg_get_todo(todo_id)
    \/ \E todo_id \in Ids, request \in Requests : pkg_update_todo(todo_id, request)
    \/ \E todo_id \in Ids : pkg_delete_todo(todo_id)

Spec == Init /\ [][Next]_vars

(* ============================ properties ============================== *)
ItemFields == {"todo_id", "title", "description", "status", "created_at", "updated_at"}

(* the table is the table the request found, but for the item of id *)
SameButFor(id) == \A k \in (DOMAIN table \cup DOMAIN resp.pre) \ {id} :
                     k \in DOMAIN table /\ k \in DOMAIN resp.pre /\ table[k] = resp.pre[k]

(* C1: round trip -- a get of an id that has not been written since the   *)
(* create request that generated it returns 200 with exactly the item     *)
(* that create returned: the six fields, equal values, nothing else.      *)
C1_RoundTrip ==
    (resp.op = "get" /\ resp.id \in DOMAIN fresh) =>
        /\ resp.status = 200
        /\ resp.item = fresh[resp.id]
        /\ DOMAIN resp.item = ItemFields

C1_Witness ==
    /\ impl = "package"
    /\ resp.op = "get" /\ resp.id \in DOMAIN fresh /\ resp.status = 200
    /\ resp.item.title = S(PaddedB)

(* C2: a delete that returns 200 removes its id and nothing else; once a  *)
(* delete of an id has returned 200, a get and a further delete of that   *)
(* id both return 404 and leave the table as it is.                       *)
C2_DeleteThenGet ==
    /\ (resp.op = "delete" /\ resp.status = 200) =>
          (resp.id \in DOMAIN resp.pre /\ resp.id \notin DOMAIN table /\ SameButFor(resp.id))
    /\ (resp.op = "delete" /\ resp.id \in DOMAIN resp.pre) => resp.status = 200
    /\ (resp.op \in {"get", "delete"} /\ resp.gone) =>
          (resp.status = 404 /\ table = resp.pre /\ resp.id \notin DOMAIN table)

C2_Witness ==
    /\ resp.op = "delete" /\ resp.gone /\ resp.status = 404
    /\ DOMAIN table # {}

C6_IdsServerGenerated ==
    /\ (resp.op = "create" /\ resp.status = 201) =>
          /\ resp.id \notin DOMAIN resp.pre
          /\ ~resp.gone
          /\ resp.id \in DOMAIN table
          /\ resp.item.todo_id = S(<<resp.id>>)
          /\ SameButFor(resp.id)
    /\ \A id \in DOMAIN table : table[id].todo_id = S(<<id>>)
    /\ resp.op = "update" =>
          /\ DOMAIN table = DOMAIN resp.pre
          /\ SameButFor(resp.id)

C6_Witness ==
    /\ resp.op = "create" /\ resp.status = 201
    /\ "todo_id" \in DOMAIN resp.request.json.val
    /\ KeyOf(resp.request.json.val) \in DOMAIN resp.pre
    /\ KeyOf(resp.request.json.val) # resp.id

(* C7: update is partial -- after a successful update each of title,      *)
(* description and status that the body does not carry has the value it   *)
(* had before, and the response is the record as stored after the update. *)
C7_PartialUpdate ==
    (resp.op = "update" /\ resp.status = 200) =>
        /\ \A f \in {"title", "description", "status"} \ DOMAIN resp.request.json.val :
              table[resp.id][f] = resp.pre[resp.id][f]
        /\ resp.item = table[resp.id]

(* whether the implementation's own validation lets the request through *)
Accepted(request) ==
    IF impl = "monolith"
    THEN request.is_json /\ validate_todo_data(request.json).kind = "ok"
    ELSE Truthy(request.json) /\ TodoModel_validate(request.json, TRUE).kind = "ok"

PlainTitle(v) == v.type = "string" /\ strip(v.val) # <<>> /\ Len(v.val) <= 200

(* C9: a create whose body has a valid title and neither status nor       *)
(* description returns 201 with status 'pending', description '' and      *)
(* created_at = updated_at, and adds exactly the returned item.           *)
C9_CreateDefaults ==
    (/\ resp.op = "create" /\ resp.request.is_json
     /\ resp.request.json.type = "object"
     /\ "title" \in DOMAIN resp.request.json.val
     /\ PlainTitle(resp.request.json.val.title)
     /\ "status" \notin DOMAIN resp.request.json.val
     /\ "description" \notin DOMAIN resp.request.json.val) =>
        /\ resp.status = 201
        /\ resp.item.status = S(pending)
        /\ resp.item.description = S(<<>>)
        /\ resp.item.created_at = resp.item.updated_at
        /\ resp.id \notin DOMAIN resp.pre
        /\ resp.id \in DOMAIN table /\ table[resp.id] = resp.item
        /\ SameButFor(resp.id)

C9_Witness ==
    /\ resp.op = "create" /\ resp.status = 201
    /\ resp.request.json = Obj([title |-> S(A)])
    /\ resp.item.status = S(pending)
    /\ DOMAIN resp.pre # {}

(* C10: for a create whose body is a mapping without a title, both        *)
(* validators report 'Title is required', the request is answered 400     *)
(* (with that message whenever the validator is reached) and the table    *)
(* is not written.                                                        *)
C10_MissingTitleRejected ==
    (/\ resp.op = "create" /\ resp.request.is_json
     /\ resp.request.json.type = "object"
     /\ "title" \notin DOMAIN resp.request.json.val) =>
        /\ validate_todo_data(resp.request.json) = Invalid("Title is required")
        /\ TodoModel_validate(resp.request.json, FALSE) = Invalid("Title is required")
        /\ resp.status = 400
        /\ (impl = "monolith" \/ Truthy(resp.request.json)) => resp.error = "Title is required"
        /\ table = resp.pre

C10_Witness ==
    /\ resp.op = "create" /\ resp.status = 400
    /\ resp.request.json = Obj([status |-> S(completed)])
    /\ resp.error = "Title is required"
    /\ DOMAIN table # {}

(* ================= validation at the length boundaries ================ *)
(* SpecValidate drives the create and update handlers with payloads at    *)
(* the limits of the validators.                                          *)
Arr(elems) == [type |-> "array", val |-> elems]

X(n) == [i \in 1..n |-> "x"]
Pad(chars) == <<" ">> \o chars \o <<" ">>
Blank == <<" ", " ">>
UpperPending == <<"P", "E", "N", "D", "I", "N", "G">>

ValidationBodies ==
    {Obj([title |-> S(A)]),
     Obj([title |-> S(X(MAX_TITLE_LENGTH))]),
     Obj([title |-> S(X(MAX_TITLE_LENGTH + 1))]),
     Obj([title |-> S(Pad(X(MAX_TITLE_LENGTH)))]),
     Obj([title |-> S(Blank)]),
     Obj([title |-> S(<<>>)]),
     Obj([title |-> S(A), description |-> S(X(MAX_DESCRIPTION_LENGTH))]),
     Obj([title |-> S(A), description |-> S(X(MAX_DESCRIPTION_LENGTH + 1))]),
     Obj([title |-> S(A), description |-> S(Pad(X(MAX_DESCRIPTION_LENGTH)))]),
     Obj([title |-> S(PaddedB), description |-> S(PaddedD), status |-> S(UpperPending)]),
     S(A), Num(7), Arr(<<S(A)>>), Null}

ValidationRequests == {[is_json |-> TRUE, json |-> b] : b \in ValidationBodies}

(* the number of items the boundary payloads are exercised on *)
MaxValidated == 1

NextValidate ==
    \/ \E request \in ValidationRequests :
          Cardinality(DOMAIN born) < MaxValidated /\ create_todo(request)
    \/ \E todo_id \in 1..MaxValidated, request \in ValidationRequests :
          update_todo(todo_id, request)
    \/ \E request \in ValidationRequests :
          Cardinality(DOMAIN born) < MaxValidated /\ pkg_create_todo(request)
    \/ \E todo_id \in 1..MaxValidated, request \in ValidationRequests :
          pkg_update_todo(todo_id, request)

SpecValidate == Init /\ [][NextValidate]_vars

(* the last request was a create or an update carrying a JSON mapping *)
WroteMapping ==
    /\ resp.op \in {"create", "update"}
    /\ resp.request.is_json
    /\ resp.request.json.type = "object"

HasString(field) ==
    /\ field \in DOMAIN resp.request.json.val
    /\ resp.request.json.val[field].type = "string"

(* validation let the request through: it was answered by the store step *)
Passed == resp.status \in {200, 201, 404}

(* C11: title length boundary -- for a body holding only a title, on      *)
(* create and on update alike, a title longer than 200 characters after   *)
(* trimming is answered 400 'Title must be 200 characters or less' and a  *)
(* title of exactly 200 characters after trimming passes validation.      *)
C11_TitleBoundary ==
    (WroteMapping /\ DOMAIN resp.request.json.val = {"title"} /\ HasString("title")) =>
        LET n == Len(strip(resp.request.json.val.title.val)) IN
        /\ n > 200 => (resp.status = 400
                       /\ resp.error = "Title must be 200 characters or less")
        /\ n = 200 => Passed

(* C12: a title that is empty after trimming is refused with a title      *)
(* error on create and on update, and no stored title is blank.           *)
C12_BlankTitleRejected ==
    /\ (WroteMapping /\ HasString("title")
        /\ strip(resp.request.json.val.title.val) = <<>>) =>
          /\ resp.status = 400
          /\ resp.error \in {"Title is required",
                             "Title must be between 1 and 200 characters"}
          /\ table = resp.pre
    /\ \A id \in DOMAIN table :
          table[id].title.type = "string" /\ strip(table[id].title.val) # <<>>

(* C13: normalization -- every record a create or an update has written  *)
(* has a trimmed title and description and a lowercase status of the      *)
(* enum, and a body that is valid but for the case of its status is       *)
(* accepted and stored with the status in lowercase.                      *)
C13_Normalized ==
    /\ \A id \in DOMAIN table :
          /\ table[id].title.val = strip(table[id].title.val)
          /\ table[id].description.val = strip(table[id].description.val)
          /\ table[id].status \in {S(pending), S(completed), S(archived)}
    /\ (WroteMapping /\ resp.op = "create" /\ HasString("status")
        /\ resp.request.json.val.status.val = UpperPending
        /\ HasString("title") /\ PlainTitle(resp.request.json.val.title)) =>
          (resp.status = 201 /\ table[resp.id].status = S(pending))

(* C14: description length boundary -- on a create with a valid title, a  *)
(* description longer than 1000 characters after trimming is refused with *)
(* the description error, one of exactly 1000 characters after trimming   *)
(* passes, and an absent one passes and is stored as the empty string.    *)
C14_DescriptionBoundary ==
    (WroteMapping /\ resp.op = "create" /\ HasString("title")
     /\ resp.request.json.val.title = S(A)
     /\ "status" \notin DOMAIN resp.request.json.val) =>
        /\ HasString("description") =>
              LET n == Len(strip(resp.request.json.val.description.val)) IN
              /\ n > 1000 =>
                    /\ resp.status = 400
                    /\ resp.error \in {"Description must be 1000 characters or less",
                                       "Description must be less than 1000 characters"}
              /\ n = 1000 => resp.status = 201
        /\ "description" \notin DOMAIN resp.request.json.val =>
              (resp.status = 201 /\ table[resp.id].description = S(<<>>))

(* C15: a body that is not a mapping is refused with 400 'Request body    *)
(* must be a JSON object', not with a title error or a server fault.      *)
C15_NotAnObject ==
    (resp.op \in {"create", "update"} /\ resp.request.is_json
     /\ resp.request.json.type # "object") =>
        (resp.status = 400 /\ resp.error = "Request body must be a JSON object")

(* ======================= listing: GET /todos ========================== *)

(* ------------------------ query-string values ------------------------- *)
(* request.args maps a parameter name to the characters of its value.     *)
ArgsGet(args, key, default) == IF key \in DOMAIN args THEN args[key] ELSE default

Digits == <<"0", "1", "2", "3", "4", "5", "6", "7", "8", "9">>
IsDigit(c) == \E n \in 0..9 : Digits[n + 1] = c
DigitVal(c) == CHOOSE n \in 0..9 : Digits[n + 1] = c

RECURSIVE Decimal(_)
Decimal(ds) ==
    IF ds = <<>> THEN 0
    ELSE 10 * Decimal(SubSeq(ds, 1, Len(ds) - 1)) + DigitVal(ds[Len(ds)])

(* int(str): surrounding whitespace and one sign are allowed, then one or *)
(* more decimal digits; anything else raises ValueError                   *)
py_int(chars) ==
    LET t == strip(chars)
        signed == t # <<>> /\ Head(t) \in {"+", "-"}
        ds == IF signed THEN Tail(t) ELSE t
    IN  IF ds # <<>> /\ \A i \in DOMAIN ds : IsDigit(ds[i])
        THEN [ok |-> TRUE,
              val |-> IF signed /\ Head(t) = "-" THEN 0 - Decimal(ds) ELSE Decimal(ds)]
        ELSE [ok |-> FALSE, val |-> 0]

Absent == [present |-> FALSE, val |-> <<>>]
Given(chars) == [present |-> TRUE, val |-> chars]

(* mutant: the parsed limit is used whatever its value *)
limit_of_unclamped(raw) ==
    IF ~raw.present THEN 50
    ELSE LET parsed == py_int(raw.val) IN
         IF ~parsed.ok THEN 50 ELSE parsed.val

(* the limit both list handlers compute from the `limit` parameter *)
limit_of(raw) ==
    IF ~raw.present THEN 50
    ELSE LET parsed == py_int(raw.val) IN
         IF ~parsed.ok THEN 50
         ELSE IF parsed.val < 1 \/ parsed.val > 100 THEN 50 ELSE parsed.val

(* ----------------------- json.dumps / json.loads ---------------------- *)
KeyFields == <<"todo_id", "status", "created_at">>

(* the characters of a key attribute: ids and timestamps are digits *)
Encode(field, v) ==
    IF field = "status" THEN v.val ELSE [i \in DOMAIN v.val |-> Digits[v.val[i] + 1]]
Decode(chars) ==
    S([i \in DOMAIN chars |-> IF IsDigit(chars[i]) THEN DigitVal(chars[i]) ELSE chars[i]])

RECURSIVE Join(_, _)
Join(parts, sep) ==
    IF parts = <<>> THEN <<>>
    ELSE IF Len(parts) = 1 THEN parts[1]
    ELSE parts[1] \o <<sep>> \o Join(Tail(parts), sep)

RECURSIVE Split(_, _)
Split(chars, sep) ==
    IF \A i \in DOMAIN chars : chars[i] # sep THEN <<chars>>
    ELSE LET i == CHOOSE j \in DOMAIN chars :
                      chars[j] = sep /\ \A k \in 1..(j - 1) : chars[k] # sep
         IN  <<SubSeq(chars, 1, i - 1)>> \o Split(SubSeq(chars, i + 1, Len(chars)), sep)

(* json.dumps of a key: {name:value,...} *)
json_dumps(key) ==
    LET names == SelectSeq(KeyFields, LAMBDA f : f \in DOMAIN key)
        members == [i \in DOMAIN names |-> <<names[i], ":">> \o Encode(names[i], key[names[i]])]
    IN  S(<<"{">> \o Join(members, ",") \o <<"}">>)

(* json.loads of a token: the key it spells, or JSONDecodeError.  The     *)
(* clients send tokens that spell an object or that spell no JSON at all. *)
json_loads(chars) ==
    LET braced == Len(chars) >= 2 /\ chars[1] = "{" /\ chars[Len(chars)] = "}"
        inner == SubSeq(chars, 2, Len(chars) - 1)
        members == IF inner = <<>> THEN <<>> ELSE Split(inner, ",")
        formed == \A i \in DOMAIN members : Len(members[i]) >= 2 /\ members[i][2] = ":"
    IN  IF braced /\ formed
        THEN [ok |-> TRUE,
              val |-> [f \in {members[i][1] : i \in DOMAIN members} |->
                          LET m == members[CHOOSE i \in DOMAIN members : members[i][1] = f]
                          IN  Decode(SubSeq(m, 3, Len(m)))]]
        ELSE [ok |-> FALSE, val |-> <<>>]

(* ----------------------- DynamoDB: Scan and Query --------------------- *)
(* layout is the order in which the table's partitions hold the keys: a   *)
(* scan visits the stored items in that order.                            *)
Layouts == {p \in [Ids -> Ids] : \A i, j \in Ids : p[i] = p[j] => i = j}
Position(id) == CHOOSE p \in Ids : layout[p] = id

Reverse(seq) == [i \in DOMAIN seq |-> seq[Len(seq) + 1 - i]]
Take(seq, n) == SubSeq(seq, 1, IF n < Len(seq) THEN n ELSE Len(seq))

ScanOrder(t) ==
    [i \in 1..Cardinality(DOMAIN t) |->
        CHOOSE x \in DOMAIN t :
            Cardinality({y \in DOMAIN t : Position(y) < Position(x)}) = i - 1]

(* StatusDateIndex: partition key status, sort key created_at; items with *)
(* the same created_at lie in the order of their table keys               *)
Indexed(t, status) ==
    {id \in DOMAIN t : /\ {"status", "created_at"} \subseteq DOMAIN t[id]
                       /\ t[id].status = S(status)}
Before(t, a, b) ==
    \/ TimeOf(t[a].created_at) < TimeOf(t[b].created_at)
    \/ /\ TimeOf(t[a].created_at) = TimeOf(t[b].created_at)
       /\ Position(a) < Position(b)
IndexOrder(t, status, ScanIndexForward) ==
    LET entries == Indexed(t, status)
        ascending == [i \in 1..Cardinality(entries) |->
                         CHOOSE x \in entries :
                             Cardinality({y \in entries : Before(t, y, x)}) = i - 1]
    IN  IF ScanIndexForward THEN ascending ELSE Reverse(ascending)

NoKey == <<>>

(* a page: at most Limit items, and LastEvaluatedKey when the read        *)
(* stopped because Limit items had been read                              *)
Page(t, order, Limit, keys) ==
    LET ids == Take(order, Limit) IN
    [ok |-> TRUE,
     Items |-> [i \in DOMAIN ids |-> t[ids[i]]],
     LastEvaluatedKey |-> IF ids # <<>> /\ Len(ids) = Limit
                          THEN keys[ids[Len(ids)]] ELSE NoKey]

ClientError == [ok |-> FALSE, Items |-> <<>>, LastEvaluatedKey |-> NoKey]

(* Table.scan(Limit, ExclusiveStartKey) *)
scan(t, Limit, ExclusiveStartKey) ==
    LET keys == [id \in DOMAIN t |-> [todo_id |-> S(<<id>>)]] IN
    IF DOMAIN ExclusiveStartKey = {}
    THEN Page(t, ScanOrder(t), Limit, keys)
    ELSE IF DOMAIN ExclusiveStartKey # {"todo_id"} THEN ClientError
    ELSE LET from == Position(KeyOf(ExclusiveStartKey))
         IN  Page(t, SelectSeq(ScanOrder(t), LAMBDA id : Position(id) > from), Limit, keys)

(* Table.query(IndexName='StatusDateIndex', status = :status, Limit,      *)
(*             ScanIndexForward, ExclusiveStartKey)                        *)
query(t, status, Limit, ScanIndexForward, ExclusiveStartKey) ==
    LET keys == [id \in Indexed(t, status) |->
                    [todo_id |-> S(<<id>>), status |-> t[id].status,
                     created_at |-> t[id].created_at]]
        order == IndexOrder(t, status, ScanIndexForward)
        Past(id) ==
            LET later ==
                  \/ TimeOf(t[id].created_at) > TimeOf(ExclusiveStartKey.created_at)
                  \/ /\ TimeOf(t[id].created_at) = TimeOf(ExclusiveStartKey.created_at)
                     /\ Position(id) > Position(KeyOf(ExclusiveStartKey))
            IN  /\ id # KeyOf(ExclusiveStartKey)
                /\ (ScanIndexForward <=> later)
    IN  IF DOMAIN ExclusiveStartKey = {}
        THEN Page(t, order, Limit, keys)
        ELSE IF \/ DOMAIN ExclusiveStartKey # {"todo_id", "status", "created_at"}
                \/ ExclusiveStartKey.status # S(status)
        THEN ClientError
        ELSE Page(t, SelectSeq(order, Past), Limit, keys)

(* ------------------------- what a list request did -------------------- *)
(* The item of a list response holds the response body, the call the      *)
(* handler made on the table (op "none" when it made none; more tells     *)
(* whether the table returned a LastEvaluatedKey) and walk, the ids that  *)
(* the pages of the current traversal have returned so far.               *)
NoCall == [op |-> "none", Limit |-> 0, ScanIndexForward |-> TRUE, Items |-> <<>>, more |-> FALSE]
Call(op, Limit, ScanIndexForward, response) ==
    [op |-> op, Limit |-> Limit, ScanIndexForward |-> ScanIndexForward,
     Items |-> response.Items, more |-> DOMAIN response.LastEvaluatedKey # {}]
Listed(body, call, walk) == [body |-> body, call |-> call, walk |-> walk]
IdsOf(items) == [i \in DOMAIN items |-> KeyOf(items[i])]

(* the filter a request asks for: a non-empty status parameter *)
FilterOf(args) == IF "status" \in DOMAIN args /\ args.status # <<>> THEN args.status ELSE <<>>

(* the request presents the token of the previous response, same filter *)
Continues(args) ==
    /\ "next_token" \in DOMAIN args
    /\ resp.op = "list" /\ resp.status = 200
    /\ "next_token" \in DOMAIN resp.item.body
    /\ resp.item.body.next_token = S(args.next_token)
    /\ FilterOf(resp.request.args) = FilterOf(args)

ListResponse(args, status, error, item) ==
    Response("list", 0, [args |-> args], status, error, item)

(* =============== monolith: list_todos ================================= *)
CreatedKey(x) == IF "created_at" \in DOMAIN x THEN TimeOf(x.created_at) ELSE 0 - 1

(* todos.sort(key=created_at, reverse=True): stable, equal keys keep the *)
(* order they came in                                                     *)
sort_created_at_reverse(todos) ==
    LET rank(i) == Cardinality({j \in DOMAIN todos : CreatedKey(todos[j]) > CreatedKey(todos[i])})
                   + Cardinality({j \in 1..(i - 1) : CreatedKey(todos[j]) = CreatedKey(todos[i])})
                   + 1
    IN  [r \in DOMAIN todos |-> todos[CHOOSE i \in DOMAIN todos : rank(i) = r]]

list_todos(args) ==
    /\ impl = "monolith"
    /\ LET status_filter == lower(ArgsGet(args, "status", <<>>))
           limit == limit_of(Given(ArgsGet(args, "limit", <<"5", "0">>)))
           use_index == status_filter # <<>> /\ status_filter \in Range(VALID_STATUSES)
           response == IF use_index
                       THEN query(table, status_filter, limit, FALSE, NoKey)
                       ELSE scan(table, limit, NoKey)
           todos == IF use_index THEN response.Items
                    ELSE sort_created_at_reverse(response.Items)
           body == [todos |-> todos, count |-> Len(todos),
                    status_filter |-> IF use_index THEN S(status_filter) ELSE Null]
           call == Call(IF use_index THEN "query" ELSE "scan", limit, ~use_index, response)
       IN  resp' = ListResponse(args, 200, "", Listed(body, call, IdsOf(todos)))
    /\ Unchanged

(* =============== package: list_todos ================================== *)
(* TodoDatabase.list_todos *)
TodoDatabase_list_todos(t, status, limit, next_token) ==
    LET decoded == IF next_token.present /\ next_token.val # <<>>
                   THEN json_loads(next_token.val)
                   ELSE [ok |-> TRUE, val |-> NoKey]
        filtered == status.present /\ status.val # <<>>
        response == IF filtered
                    THEN query(t, status.val, limit, TRUE, decoded.val)
                    ELSE scan(t, limit, decoded.val)
        result == [todos |-> response.Items, count |-> Len(response.Items),
                   total_scanned |-> Len(response.Items)]
        token == IF DOMAIN response.LastEvaluatedKey # {}
                 THEN [next_token |-> json_dumps(response.LastEvaluatedKey)]
                 ELSE <<>>
    IN  IF ~decoded.ok THEN [kind |-> "ValueError", result |-> <<>>, call |-> NoCall]
        ELSE IF ~response.ok
        THEN [kind |-> "ClientError", result |-> <<>>,
              call |-> Call(IF filtered THEN "query" ELSE "scan", limit, TRUE, response)]
        ELSE [kind |-> "ok", result |-> result @@ token,
              call |-> Call(IF filtered THEN "query" ELSE "scan", limit, TRUE, response)]

pkg_list_todos(args) ==
    /\ impl = "package"
    /\ LET status == IF "status" \in DOMAIN args THEN Given(args.status) ELSE Absent
           limit == limit_of(IF "limit" \in DOMAIN args THEN Given(args.limit) ELSE Absent)
           next_token == IF "next_token" \in DOMAIN args THEN Given(args.next_token) ELSE Absent
       IN  IF status.present /\ status.val # <<>> /\ status.val \notin Range(VALID_STATUSES)
           THEN resp' = ListResponse(args, 400,
                           "Invalid status. Must be one of: pending, completed, archived",
                           Listed(<<>>, NoCall, <<>>))
           ELSE LET listed == TodoDatabase_list_todos(table, status, limit, next_token) IN
                CASE listed.kind = "ValueError" ->
                       resp' = ListResponse(args, 400, "Invalid pagination token",
                                            Listed(<<>>, listed.call, <<>>))
                  [] listed.kind = "ClientError" ->
                       resp' = ListResponse(args, 500, "Internal server error",
                                            Listed(<<>>, listed.call, <<>>))
                  [] listed.kind = "ok" ->
                       resp' = ListResponse(args, 200, "",
                                   Listed(listed.result, listed.call,
                                          (IF Continues(args) THEN resp.item.walk ELSE <<>>)
                                            \o IdsOf(listed.result.todos)))
    /\ Unchanged

(* ------------------------- list requests ------------------------------ *)
Garbage == <<"x">>

(* limit parameters, sent without a filter *)
Limits == {<<"1">>, <<"2">>, <<"0">>, <<"-", "1">>, <<"1", "0", "0">>, <<"1", "0", "1">>,
           <<" ", "2", " ">>, <<"2", ".", "5">>, <<"a", "b">>, <<>>}

(* requests that page through the table or through one status *)
Paging == {[limit |-> <<"1">>], [limit |-> <<"2">>],
           [status |-> pending, limit |-> <<"1">>],
           [status |-> pending, limit |-> <<"2">>],
           [status |-> completed, limit |-> <<"1">>]}

ListArgs ==
    {<<>>} \cup {[limit |-> n] : n \in Limits} \cup Paging
    \cup {[status |-> s] : s \in {pending, UpperPending, Bogus, <<>>}}

(* the arguments of a request: any of ListArgs, or a paging request with  *)
(* a token that spells no JSON or the token the previous response carried *)
Tokens ==
    {Garbage} \cup
    (IF resp.op = "list" /\ resp.status = 200 /\ "next_token" \in DOMAIN resp.item.body
     THEN {resp.item.body.next_token.val} ELSE {})
ListRequests == ListArgs \cup {a @@ [next_token |-> k] : a \in Paging, k \in Tokens}

ListBodies == {Obj([title |-> S(A)]), Obj([title |-> S(A), status |-> S(completed)])}
ListCreates == {[is_json |-> TRUE, json |-> b] : b \in ListBodies}

InitList ==
    /\ impl \in {"monolith", "package"}
    /\ layout \in Layouts
    /\ calls = NoCalls
    /\ table = <<>>
    /\ clock = 1
    /\ born = <<>>
    /\ fresh = <<>>
    /\ deleted = {}
    /\ resp = [op |-> "none", id |-> 0, request |-> NoRequest, status |-> 0,
               error |-> "", item |-> NoItem, pre |-> <<>>, at |-> 1, gone |-> FALSE]

NextList ==
    \/ Tick
    \/ \E request \in ListCreates : create_todo(request)
    \/ \E request \in ListCreates : pkg_create_todo(request)
    \/ \E args \in ListRequests : list_todos(args)
    \/ \E args \in ListRequests : pkg_list_todos(args)

SpecList == InitList /\ [][NextList]_vars

(* ------------------------- properties of listing ---------------------- *)
ListArgsOf == resp.request.args
Matching(filter) ==
    {id \in DOMAIN resp.pre : filter = <<>> \/ resp.pre[id].status = S(filter)}

SentStatus(set) == "status" \in DOMAIN ListArgsOf /\ ListArgsOf.status \in set
FirstPage == resp.op = "list" /\ "next_token" \notin DOMAIN ListArgsOf
EffectiveLimit ==
    LET requested == IF "limit" \in DOMAIN ListArgsOf
                     THEN py_int(ListArgsOf.limit)
                     ELSE [ok |-> FALSE, val |-> 0]
    IN  IF requested.ok /\ requested.val >= 1 /\ requested.val <= 100
        THEN requested.val ELSE 50
NewestFirst(todos) ==
    \A i, j \in DOMAIN todos :
        i < j => TimeOf(todos[i].created_at) >= TimeOf(todos[j].created_at)

(* C16: the page size handed to the store is the requested limit when it  *)
(* is an integer in [1,100] and 50 for every other input (absent, not a   *)
(* number, 0, negative, above 100), and a list response never holds more  *)
(* items than that effective limit.                                       *)
C16_ListLimit ==
    resp.op = "list" =>
        /\ resp.item.call.op # "none" => resp.item.call.Limit = EffectiveLimit
        /\ resp.status = 200 =>
             /\ Len(resp.item.body.todos) <= EffectiveLimit
             /\ resp.item.body.count <= EffectiveLimit

(* a list with limit=1 over a table of two or more items returned one item *)
C16_Witness ==
    /\ resp.op = "list" /\ resp.status = 200
    /\ "limit" \in DOMAIN ListArgsOf /\ ListArgsOf.limit = <<"1">>
    /\ Cardinality(DOMAIN resp.pre) >= 2
    /\ resp.item.call.Limit = 1
    /\ Len(resp.item.body.todos) = 1

(* C17: a list request whose status parameter is present and is not one   *)
(* of pending, completed, archived (here: non-empty and not one of them   *)
(* in any letter case) is answered 400 with a message listing the valid   *)
(* statuses, and no scan or query is made.                                *)
C17_InvalidStatusRejected ==
    (/\ resp.op = "list"
     /\ "status" \in DOMAIN ListArgsOf
     /\ ListArgsOf.status # <<>>
     /\ lower(ListArgsOf.status) \notin Range(VALID_STATUSES))
    => /\ resp.status = 400
       /\ resp.error \in {"Invalid status. Must be one of: pending, completed, archived",
                          "Status must be one of: pending, completed, archived"}
       /\ resp.item.call.op = "none"

(* C18: a list request with a valid status filter s returns only items    *)
(* whose stored status is s, read by a query on the (status, created_at)  *)
(* index with page size limit, newest created_at first.                   *)
C18_FilteredNewestFirst ==
    (FirstPage /\ SentStatus(Range(VALID_STATUSES)))
    => /\ resp.status = 200
       /\ resp.item.call.op = "query"
       /\ resp.item.call.Limit = EffectiveLimit
       /\ \A i \in DOMAIN resp.item.body.todos :
              resp.item.body.todos[i].status = S(ListArgsOf.status)
       /\ NewestFirst(resp.item.body.todos)

(* C19: a list request without a status filter makes a scan bounded by    *)
(* limit and returns that page sorted by created_at descending: the items *)
(* are exactly those the scan returned, reordered, and count is their     *)
(* number.                                                                *)
C19_ScanPageSorted ==
    (FirstPage /\ "status" \notin DOMAIN ListArgsOf)
    => /\ resp.status = 200
       /\ resp.item.call.op = "scan"
       /\ resp.item.call.Limit = EffectiveLimit
       /\ Len(resp.item.body.todos) = Len(resp.item.call.Items)
       /\ Range(resp.item.body.todos) = Range(resp.item.call.Items)
       /\ resp.item.body.count = Len(resp.item.body.todos)
       /\ NewestFirst(resp.item.body.todos)

(* C20: a list response carries a next token exactly when the store       *)
(* reported more results, and a traversal that starts without a token and *)
(* presents each response's token with the same filter until a response   *)
(* carries none has returned every matching item exactly once.            *)
C20_Pagination ==
    (/\ resp.op = "list" /\ resp.status = 200
     /\ FilterOf(ListArgsOf) \in {<<>>} \cup Range(VALID_STATUSES))
    => /\ "next_token" \in DOMAIN resp.item.body <=> resp.item.call.more
       /\ "next_token" \notin DOMAIN resp.item.body =>
            /\ Len(resp.item.walk) = Cardinality(Matching(FilterOf(ListArgsOf)))
            /\ Range(resp.item.walk) = Matching(FilterOf(ListArgsOf))

(* ============ requests handled step by step, store faults ============= *)

(* ------------------------- errors of the store ------------------------ *)
(* A store operation either succeeds or raises: a botocore ClientError    *)
(* with an error code, or another exception (the endpoint is unreachable).*)
(* text is the text of the exception, str(e).                             *)
Texts == {"e1", "e2"}
ErrorCodes == {"ResourceNotFoundException", "ValidationException",
               "ConditionalCheckFailedException",
               "ProvisionedThroughputExceededException"}
StoreFaults ==
    {[kind |-> "ClientError", code |-> c, text |-> t] : c \in ErrorCodes, t \in Texts}
    \cup {[kind |-> "Exception", code |-> "EndpointConnectionError", text |-> t] : t \in Texts}

(* a response: status code, the body's error, its details, and its item *)
Reply(status, error, details, item) ==
    [status |-> status, error |-> error, details |-> details, item |-> item]

(* monolith: handle_dynamodb_error *)
handle_dynamodb_error(error) ==
    CASE error.code = "ResourceNotFoundException" ->
           Reply(500, "Database table not found", "", NoItem)
      [] error.code = "ValidationException" ->
           Reply(400, "Invalid request data", "", NoItem)
      [] error.code = "ConditionalCheckFailedException" ->
           Reply(404, "Item not found or condition failed", "", NoItem)
      [] OTHER -> Reply(500, "Database operation failed", "", NoItem)

(* monolith: the message of each handler's `except Exception` *)
FailedTo(op) ==
    CASE op = "list" -> "Failed to retrieve todos"
      [] op = "get" -> "Failed to retrieve todo"
      [] op = "create" -> "Failed to create todo"
      [] op = "update" -> "Failed to update todo"
      [] op = "delete" -> "Failed to delete todo"

(* the response of a handler whose store operation raised `error`:        *)
(* the monolith classifies a ClientError and answers anything else with   *)
(* its own message; the adapter of the package re-raises and its handlers *)
(* answer every exception with 500 and str(e) as details                  *)
failure(op, error) ==
    IF impl = "monolith"
    THEN IF error.kind = "ClientError" THEN handle_dynamodb_error(error)
         ELSE Reply(500, FailedTo(op), "", NoItem)
    ELSE Reply(500, "Internal server error", error.text, NoItem)

(* ------------------------------ the steps ----------------------------- *)
Started(op, id, request, args, pc, prepared) ==
    [op |-> op, id |-> id, request |-> request, args |-> args, pc |-> pc,
     ops |-> <<>>, pending |-> prepared, found |-> NoItem, out |-> <<>>]

(* the handler returns: the response is sent and the request is over *)
Return(call, reply) == [call EXCEPT !.pc = "done", !.out = Append(@, reply)]

(* mutant: a failed store operation is issued again *)
after_failure_retry(call, reply) == call

(* an exception leaves the try block: the handler answers and returns *)
after_failure(call, reply) == Return(call, reply)

(* the number of store operations issued so far by the requests in flight *)
RECURSIVE Issued(_)
Issued(cs) ==
    IF cs = {} THEN 0
    ELSE LET c == CHOOSE x \in cs : TRUE IN Len(calls[c].ops) + Issued(cs \ {c})

Issue(call, error) ==
    [call EXCEPT !.ops = Append(@, [name |-> call.pc, error |-> error,
                                    at |-> Issued(Clients) + 1])]

Free(c) == calls[c].pc \in {"idle", "done"}
Rest == UNCHANGED <<impl, layout, clock, fresh, deleted, resp>>

(* mutant: the body is not validated *)
Prelude_unvalidated(request, is_update) ==
    IF impl = "monolith"
    THEN [kind |-> "proceed",
          data |-> [title |-> DictGet(request.json.val, "title", S(<<>>)),
                    description |-> DictGet(request.json.val, "description", S(<<>>)),
                    status |-> DictGet(request.json.val, "status", S(pending))]]
    ELSE [kind |-> "proceed", data |-> request.json]

(* what create and update do before they touch the store: the handler     *)
(* answers at once, or proceeds with the validated data                   *)
Prelude(request, is_update) ==
    LET op == IF is_update THEN "update" ELSE "create" IN
    IF impl = "monolith"
    THEN IF ~request.is_json
         THEN [kind |-> "reply",
               reply |-> Reply(400, "Content-Type must be application/json", "", NoItem)]
         ELSE LET validated == validate_todo_data(request.json) IN
              CASE validated.kind = "invalid" ->
                     [kind |-> "reply", reply |-> Reply(400, validated.error, "", NoItem)]
                [] validated.kind = "raised" ->
                     [kind |-> "reply", reply |-> Reply(500, FailedTo(op), "", NoItem)]
                [] validated.kind = "ok" ->
                     [kind |-> "proceed", data |-> validated.data]
    ELSE LET validated == TodoModel_validate(request.json, is_update) IN
         CASE ~Truthy(request.json) ->
                [kind |-> "reply", reply |-> Reply(400, "No data provided", "", NoItem)]
           [] Truthy(request.json) /\ validated.kind = "invalid" ->
                [kind |-> "reply", reply |-> Reply(400, validated.error, "", NoItem)]
           [] Truthy(request.json) /\ validated.kind = "raised" ->
                [kind |-> "reply",
                 reply |-> Reply(500, "Internal server error", "TypeError", NoItem)]
           [] Truthy(request.json) /\ validated.kind = "ok" ->
                [kind |-> "proceed", data |-> request.json]

(* POST /todos up to its put_item *)
create_todo_begin(c, request) ==
    /\ Free(c)
    /\ LET pre == Prelude(request, FALSE) IN
       IF pre.kind = "reply"
       THEN calls' = [calls EXCEPT ![c] =
                         Return(Started("create", 0, request, <<>>, "done", NoItem), pre.reply)]
       ELSE \E todo_id \in uuid4 :
              calls' = [calls EXCEPT ![c] =
                  Started("create", todo_id, request, <<>>, "put_item",
                          IF impl = "monolith"
                          THEN create_todo_item(todo_id, pre.data, clock)
                          ELSE TodoModel_from_dict(pre.data, todo_id, clock))]
    /\ UNCHANGED <<table, born>>
    /\ Rest

(* PUT /todos/<todo_id> up to its existence check *)
update_todo_begin(c, todo_id, request) ==
    /\ Free(c)
    /\ LET pre == Prelude(request, TRUE) IN
       IF pre.kind = "reply"
       THEN calls' = [calls EXCEPT ![c] =
                         Return(Started("update", todo_id, request, <<>>, "done", NoItem),
                                pre.reply)]
       ELSE calls' = [calls EXCEPT ![c] =
                         Started("update", todo_id, request, <<>>, "get_item", pre.data)]
    /\ UNCHANGED <<table, born>>
    /\ Rest

(* GET /todos/<todo_id> and DELETE /todos/<todo_id> start with get_item *)
get_todo_begin(c, todo_id) ==
    /\ Free(c)
    /\ calls' = [calls EXCEPT ![c] =
                    Started("get", todo_id, NoRequest, <<>>, "get_item", NoItem)]
    /\ UNCHANGED <<table, born>>
    /\ Rest

delete_todo_begin(c, todo_id) ==
    /\ Free(c)
    /\ calls' = [calls EXCEPT ![c] =
                    Started("delete", todo_id, NoRequest, <<>>, "get_item", NoItem)]
    /\ UNCHANGED <<table, born>>
    /\ Rest

(* GET /todos up to its scan or query *)
list_todos_begin(c, args) ==
    /\ Free(c)
    /\ LET sent == ArgsGet(args, "status", <<>>)
           status == IF impl = "monolith" THEN lower(sent) ELSE sent
           valid == status \in Range(VALID_STATUSES)
       IN  IF impl = "package" /\ status # <<>> /\ ~valid
           THEN calls' = [calls EXCEPT ![c] =
                   Return(Started("list", 0, NoRequest, args, "done", NoItem),
                          Reply(400, "Invalid status. Must be one of: pending, completed, archived",
                                "", NoItem))]
           ELSE calls' = [calls EXCEPT ![c] =
                   Started("list", 0, NoRequest, args,
                           IF valid THEN "query" ELSE "scan", NoItem)]
    /\ UNCHANGED <<table, born>>
    /\ Rest

(* table.get_item: the read of get, and the existence check of update and *)
(* delete, after which the handler prepares its write                     *)
get_item_step(c, error) ==
    /\ calls[c].pc = "get_item"
    /\ LET call == Issue(calls[c], error)
           present == call.id \in DOMAIN table
       IN  calls' = [calls EXCEPT ![c] =
             IF error # NoFault THEN after_failure(call, failure(call.op, error))
             ELSE IF ~present THEN Return(call, Reply(404, "Todo not found", "", NoItem))
             ELSE CASE call.op = "get" ->
                         Return(call, Reply(200, "", "", table[call.id]))
                    [] call.op = "delete" ->
                         [call EXCEPT !.pc = "delete_item", !.found = table[call.id]]
                    [] call.op = "update" /\ impl = "monolith" ->
                         [call EXCEPT !.pc = "put_item", !.found = table[call.id],
                                      !.pending = updated_todo(call.id, call.pending,
                                                               table[call.id], clock)]
                    [] call.op = "update" /\ impl = "package" ->
                         [call EXCEPT !.pc = "update_item", !.found = table[call.id],
                                      !.pending = WithUpdatedAt(call.pending.val, clock)]]
    /\ UNCHANGED <<table, born>>
    /\ Rest

(* table.put_item: the write of create and of the monolith's update *)
put_item_step(c, error) ==
    /\ calls[c].pc = "put_item"
    /\ LET call == Issue(calls[c], error) IN
       IF error # NoFault
       THEN /\ calls' = [calls EXCEPT ![c] = after_failure(call, failure(call.op, error))]
            /\ UNCHANGED <<table, born>>
       ELSE /\ table' = put_item(table, call.pending)
            /\ born' = IF call.op = "create"
                       THEN Record(born, call.id, call.pending.created_at) ELSE born
            /\ calls' = [calls EXCEPT ![c] =
                 Return(call, Reply(IF call.op = "create" THEN 201 ELSE 200, "", "",
                                    call.pending))]
    /\ Rest

(* TodoDatabase.update_todo: table.update_item, the package's update *)
update_item_step(c, error) ==
    /\ calls[c].pc = "update_item"
    /\ LET call == Issue(calls[c], error) IN
       IF error # NoFault
       THEN /\ calls' = [calls EXCEPT ![c] = after_failure(call, failure(call.op, error))]
            /\ UNCHANGED table
       ELSE LET t == TodoDatabase_update_todo(table, call.id, call.pending) IN
            /\ table' = t
            /\ calls' = [calls EXCEPT ![c] = Return(call, Reply(200, "", "", t[call.id]))]
    /\ UNCHANGED born
    /\ Rest

(* mutant: the delete carries the condition that the key exists *)
delete_refusal_conditional(t, key) ==
    IF key \in DOMAIN t THEN NoFault
    ELSE [kind |-> "ClientError", code |-> "ConditionalCheckFailedException", text |-> "e1"]

(* DeleteItem without a condition succeeds whether or not the key exists *)
delete_refusal(t, key) == NoFault

(* table.delete_item *)
delete_item_step(c, error) ==
    /\ calls[c].pc = "delete_item"
    /\ LET raised == IF error # NoFault THEN error ELSE delete_refusal(table, calls[c].id)
           call == Issue(calls[c], raised)
       IN  IF raised # NoFault
           THEN /\ calls' = [calls EXCEPT ![c] = after_failure(call, failure(call.op, raised))]
                /\ UNCHANGED table
           ELSE /\ table' = delete_item(table, call.id)
                /\ calls' = [calls EXCEPT ![c] =
                     Return(call, Reply(200, "", "", NoItem))]
    /\ UNCHANGED born
    /\ Rest

(* table.scan / table.query of GET /todos, with the default limit *)
scan_step(c, error) ==
    /\ calls[c].pc \in {"scan", "query"}
    /\ LET call == Issue(calls[c], error)
           status == IF impl = "monolith" THEN lower(ArgsGet(call.args, "status", <<>>))
                     ELSE ArgsGet(call.args, "status", <<>>)
           response == IF call.pc = "query"
                       THEN query(table, status, 50, impl = "package", NoKey)
                       ELSE scan(table, 50, NoKey)
           todos == IF impl = "monolith" /\ call.pc = "scan"
                    THEN sort_created_at_reverse(response.Items) ELSE response.Items
       IN  calls' = [calls EXCEPT ![c] =
             IF error # NoFault THEN after_failure(call, failure(call.op, error))
             ELSE Return(call, Reply(200, "", "", todos))]
    /\ UNCHANGED <<table, born>>
    /\ Rest

(* ------------------- one client, a store that may fail ---------------- *)
FaultBodies == {Obj([title |-> S(A)]), Obj([title |-> S(A), status |-> S(Bogus)]),
                Obj([status |-> S(completed)]), Obj([title |-> Num(7)])}
FaultRequests == {[is_json |-> TRUE, json |-> b] : b \in FaultBodies}
FaultArgs == {<<>>, [status |-> pending]}
Outcomes == {NoFault} \cup StoreFaults

NextFault ==
    \/ Tick
    \/ \E request \in FaultRequests : create_todo_begin(1, request)
    \/ \E todo_id \in Ids, request \in FaultRequests : update_todo_begin(1, todo_id, request)
    \/ \E todo_id \in Ids : get_todo_begin(1, todo_id)
    \/ \E todo_id \in Ids : delete_todo_begin(1, todo_id)
    \/ \E args \in FaultArgs : list_todos_begin(1, args)
    \/ \E error \in Outcomes : get_item_step(1, error)
    \/ \E error \in Outcomes : put_item_step(1, error)
    \/ \E error \in Outcomes : update_item_step(1, error)
    \/ \E error \in Outcomes : delete_item_step(1, error)
    \/ \E error \in Outcomes : scan_step(1, error)

SpecFault == Init /\ [][NextFault]_vars

(* -------------------- properties of failing requests ------------------ *)
LastOp(c) == calls[c].ops[Len(calls[c].ops)]
(* the request of client c is over and its last store operation failed *)
Failed(c) ==
    /\ calls[c].pc = "done"
    /\ calls[c].ops # <<>>
    /\ LastOp(c).error # NoFault
Classified == {"ResourceNotFoundException", "ValidationException",
               "ConditionalCheckFailedException"}

(* C21: on every endpoint a store error is answered by its class:         *)
(* TableMissing -> 500, InvalidRequest -> 400, ConditionFailed -> 404,    *)
(* any other store error -> 500, with a message that is fixed for the     *)
(* class (never the text of the store's exception).                       *)
C21_StoreFailureMapping ==
    \A c \in Clients :
        Failed(c) =>
            LET code == LastOp(c).error.code
                reply == calls[c].out[1]
            IN  /\ reply.status = CASE code = "ResourceNotFoundException" -> 500
                                    [] code = "ValidationException" -> 400
                                    [] code = "ConditionalCheckFailedException" -> 404
                                    [] OTHER -> 500
                /\ reply.error \notin Texts

(* C22: a request that ends in an unclassified store or runtime error is  *)
(* answered with a generic message only: no field of the response holds   *)
(* the text of the internal error.                                        *)
C22_NoInternalText ==
    \A c \in Clients :
        (Failed(c) /\ LastOp(c).error.code \notin Classified) =>
            /\ calls[c].out[1].error \notin Texts
            /\ calls[c].out[1].details \notin Texts

StoreStepOf(c) ==
    \E error \in Outcomes :
        \/ get_item_step(c, error)
        \/ put_item_step(c, error)
        \/ update_item_step(c, error)
        \/ delete_item_step(c, error)
        \/ scan_step(c, error)

(* C23: within one request every store operation is attempted at most     *)
(* once, nothing is issued after a failed operation, and the request ends *)
(* with exactly one response: at most two operations, the next step of a  *)
(* request in flight is always possible, no response before the end and   *)
(* one response at the end, an error response if an operation failed.     *)
C23_NoRetry ==
    \A c \in Clients :
        LET call == calls[c] IN
        /\ \A i, j \in DOMAIN call.ops : i < j => call.ops[i].name # call.ops[j].name
        /\ \A i \in DOMAIN call.ops : i < Len(call.ops) => call.ops[i].error = NoFault
        /\ Len(call.ops) <= 2
        /\ (call.ops # <<>> /\ LastOp(c).error # NoFault) =>
               call.pc = "done" /\ call.out[1].status >= 400
        /\ call.pc = "done" => Len(call.out) = 1
        /\ call.pc # "done" => call.out = <<>>
        /\ call.pc \notin {"idle", "done"} => ENABLED StoreStepOf(c)

(* an update whose existence check succeeded and whose write failed *)
C23_Witness ==
    /\ calls[1].op = "update"
    /\ calls[1].pc = "done"
    /\ Len(calls[1].ops) = 2
    /\ calls[1].ops[1].error = NoFault
    /\ calls[1].ops[2].error # NoFault
    /\ Len(calls[1].out) = 1
    /\ calls[1].out[1].status = 500

(* the body of client c's create or update is one the validator contract  *)
(* refuses: a status outside the enum, or a create without a title        *)
RefusedBody(c) ==
    LET body == calls[c].request.json.val IN
    /\ calls[c].op \in {"create", "update"}
    /\ \/ /\ "status" \in DOMAIN body
          /\ body.status.type = "string"
          /\ lower(body.status.val) \notin Range(VALID_STATUSES)
       \/ calls[c].op = "create" /\ "title" \notin DOMAIN body

Extra == <<"h", "i", "g", "h">>
ShapeBodies == {Obj([title |-> S(A)]),
                Obj([title |-> S(A), priority |-> S(Extra)]),
                Obj([title |-> S(PaddedB), status |-> S(completed), priority |-> S(Extra),
                     todo_id |-> S(<<1>>), created_at |-> Timestamp(0)])}
ShapeRequests == {[is_json |-> TRUE, json |-> b] : b \in ShapeBodies}

NextShape ==
    \/ Tick
    \/ \E request \in ShapeRequests : create_todo(request)
    \/ \E todo_id \in Ids, request \in ShapeRequests : update_todo(todo_id, request)
    \/ \E request \in ShapeRequests : pkg_create_todo(request)
    \/ \E todo_id \in Ids, request \in ShapeRequests : pkg_update_todo(todo_id, request)

SpecShape == Init /\ [][NextShape]_vars

(* C24: after any sequence of create and update requests, whatever fields *)
(* their bodies carry, every stored item has exactly the six fields       *)
(* todo_id, title, description, status, created_at, updated_at.           *)
C24_RecordShape ==
    \A id \in DOMAIN table : DOMAIN table[id] = ItemFields

(* ================= the store adapter called on its own ================ *)
(* TodoDatabase.update_todo(todo_id, updates) called by any caller, not   *)
(* only by the PUT handler after its existence check: it returns the      *)
(* Attributes of the update_item response, and has no NotFound result.    *)
TodoDatabase_update_todo_call(todo_id, updates) ==
    /\ impl = "package"
    /\ LET t == TodoDatabase_update_todo(table, todo_id, updates) IN
       /\ table' = t
       /\ fresh' = Forget(fresh, todo_id)
       /\ resp' = Response("TodoDatabase.update_todo", todo_id,
                           [is_json |-> TRUE, json |-> Obj(updates)], 200, "", t[todo_id])
    /\ UNCHANGED <<impl, layout, calls, clock, born, deleted>>

AdapterUpdates == {[title |-> S(A)], [status |-> S(completed), updated_at |-> Timestamp(clock)]}
AdapterRequests == {[is_json |-> TRUE, json |-> Obj([title |-> S(A)])]}

NextAdapter ==
    \/ Tick
    \/ \E request \in AdapterRequests : pkg_create_todo(request)
    \/ \E todo_id \in Ids : pkg_delete_todo(todo_id)
    \/ \E todo_id \in Ids, updates \in AdapterUpdates :
          TodoDatabase_update_todo_call(todo_id, updates)

SpecAdapter == Init /\ [][NextAdapter]_vars

(* C25: the adapter's partial update, called with an id that is not in    *)
(* the store, reports NotFound and leaves the store unchanged; it never   *)
(* creates an item for that id.                                           *)
C25_AdapterUpdateMissing ==
    (resp.op = "TodoDatabase.update_todo" /\ resp.id \notin DOMAIN resp.pre)
    => /\ resp.error = "NotFound"
       /\ table = resp.pre
       /\ resp.id \notin DOMAIN table

(* ================== two requests handled concurrently ================= *)
(* Each client sends one update or delete; the handlers' store operations *)
(* interleave freely.  The table holds one item per id, created at time 1 *)
(* through the create handler of the deployed implementation.             *)
SeedBody == [title |-> S(<<"b">>), description |-> S(<<"d">>), status |-> S(completed)]
Seeded ==
    [id \in Ids |-> IF impl = "monolith"
                    THEN create_todo_item(id, SeedBody, 1)
                    ELSE TodoModel_from_dict(Obj(SeedBody), id, 1)]

RaceBodies == {Obj([title |-> S(A)]),
               Obj([title |-> S(<<"c">>), status |-> S(archived)])}
RaceRequests == {[is_json |-> TRUE, json |-> b] : b \in RaceBodies}

InitRace ==
    /\ impl \in {"monolith", "package"}
    /\ layout = [i \in Ids |-> i]
    /\ calls = NoCalls
    /\ table = Seeded
    /\ clock = 1
    /\ born = [id \in Ids |-> Timestamp(1)]
    /\ fresh = <<>>
    /\ deleted = {}
    /\ resp = [op |-> "none", id |-> 0, request |-> NoRequest, status |-> 0,
               error |-> "", item |-> NoItem, pre |-> <<>>, at |-> 1, gone |-> FALSE]

NextRace ==
    \/ Tick
    \/ \E c \in Clients, todo_id \in Ids, request \in RaceRequests :
          calls[c].pc = "idle" /\ update_todo_begin(c, todo_id, request)
    \/ \E c \in Clients, todo_id \in Ids :
          calls[c].pc = "idle" /\ delete_todo_begin(c, todo_id)
    \/ \E c \in Clients : get_item_step(c, NoFault)
    \/ \E c \in Clients : put_item_step(c, NoFault)
    \/ \E c \in Clients : update_item_step(c, NoFault)
    \/ \E c \in Clients : delete_item_step(c, NoFault)

SpecRace == InitRace /\ [][NextRace]_vars

(* ------------------------ properties of races ------------------------- *)
Answered(c, status) == calls[c].pc = "done" /\ calls[c].out[1].status = status
(* when client c issued its existence check and its write *)
CheckAt(c) == calls[c].ops[1].at
WriteAt(c) == calls[c].ops[2].at
Wrote(c) == Len(calls[c].ops) = 2 /\ calls[c].ops[2].error = NoFault
(* the fields the write of client c's update stored *)
Written(c) == IF impl = "monolith" THEN calls[c].pending ELSE UpdateSet(calls[c].pending)

(* client c's request is the only one, besides d's, that names its id *)
Pair(c, d) ==
    /\ c # d
    /\ calls[c].id = calls[d].id
    /\ \A e \in Clients \ {c, d} : calls[e].id # calls[c].id

(* C26: when two concurrent updates of the same existing id both return   *)
(* 200, the stored item holds, for every field written by the update      *)
(* whose write was applied last, that update's value; created_at is       *)
(* unchanged and neither write was lost to an error.                      *)
C26_LastWriteWins ==
    \A c, d \in Clients :
        (/\ Pair(c, d)
         /\ calls[c].op = "update" /\ calls[d].op = "update"
         /\ Answered(c, 200) /\ Answered(d, 200)
         /\ WriteAt(d) < WriteAt(c))
        => /\ Wrote(c) /\ Wrote(d)
           /\ calls[c].id \in DOMAIN table
           /\ \A f \in DOMAIN Written(c) : table[calls[c].id][f] = Written(c)[f]
           /\ table[calls[c].id].created_at = born[calls[c].id]

(* both updates passed the existence check before either wrote, and they  *)
(* wrote different titles                                                 *)
C26_Witness ==
    /\ calls[1].op = "update" /\ calls[2].op = "update"
    /\ calls[1].id = calls[2].id
    /\ Answered(1, 200) /\ Answered(2, 200)
    /\ CheckAt(1) < WriteAt(2) /\ CheckAt(2) < WriteAt(1)
    /\ WriteAt(1) < WriteAt(2)
    /\ calls[1].request # calls[2].request
    /\ table[calls[2].id].title = calls[2].request.json.val.title

CompleteRecord(item, id) ==
    /\ ItemFields \subseteq DOMAIN item
    /\ item.status.val \in Range(VALID_STATUSES)
    /\ item.created_at = born[id]
    /\ TimeOf(item.updated_at) >= TimeOf(item.created_at)

(* C27: when a delete of X takes effect between a concurrent update's     *)
(* existence check and its write, the update and the delete both return   *)
(* 200 and every item then in the store, also one stored under X, is a    *)
(* complete valid record with X's original created_at.                    *)
C27_UpdateDeleteRace ==
    \A u, d \in Clients :
        (/\ Pair(u, d)
         /\ calls[u].op = "update" /\ calls[d].op = "delete"
         /\ calls[u].pc = "done" /\ calls[d].pc = "done"
         /\ Len(calls[u].ops) = 2 /\ Len(calls[d].ops) = 2
         /\ CheckAt(u) < WriteAt(d) /\ WriteAt(d) < WriteAt(u))
        => /\ Answered(u, 200) /\ Answered(d, 200)
           /\ \A id \in DOMAIN table : CompleteRecord(table[id], id)

(* C28: when two deletes of the same existing id both pass the existence  *)
(* check before either delete is applied, both return 200, the id is      *)
(* absent afterwards and every item no request names is unchanged.        *)
C28_ConcurrentDeletes ==
    \A c, d \in Clients :
        (/\ Pair(c, d)
         /\ calls[c].op = "delete" /\ calls[d].op = "delete"
         /\ calls[c].pc = "done" /\ calls[d].pc = "done"
         /\ Len(calls[c].ops) = 2 /\ Len(calls[d].ops) = 2
         /\ CheckAt(c) < WriteAt(d) /\ CheckAt(d) < WriteAt(c))
        => /\ Answered(c, 200) /\ Answered(d, 200)
           /\ calls[c].id \notin DOMAIN table
           /\ \A id \in Ids \ {calls[e].id : e \in Clients} :
                  id \in DOMAIN table /\ table[id] = Seeded[id]

(* both deletes found the item, then both deleted it *)
C28_Witness ==
    /\ calls[1].op = "delete" /\ calls[2].op = "delete"
    /\ calls[1].id = calls[2].id
    /\ Answered(1, 200) /\ Answered(2, 200)
    /\ Len(calls[1].ops) = 2 /\ Len(calls[2].ops) = 2
    /\ CheckAt(1) < WriteAt(2) /\ CheckAt(2) < WriteAt(1)
    /\ calls[1].id \notin DOMAIN table

(* ============ mappings whose fields are not JSON strings ============== *)
TypedBodies == {Obj([title |-> S(A)]),
                Obj([title |-> Num(7)]),
                Obj([title |-> Null]),
                Obj([title |-> Arr(<<S(A)>>)]),
                Obj([title |-> Obj([a |-> S(A)])]),
                Obj([title |-> S(A), description |-> Num(7)]),
                Obj([title |-> S(A), description |-> Arr(<<S(A)>>)]),
                Obj([title |-> S(A), status |-> Num(7)]),
                Obj([title |-> S(A), status |-> Null])}
TypedRequests == {[is_json |-> TRUE, json |-> b] : b \in TypedBodies}

NextTypes ==
    \/ \E request \in TypedRequests : create_todo(request)
    \/ \E todo_id \in Ids, request \in TypedRequests : update_todo(todo_id, request)
    \/ \E request \in TypedRequests : pkg_create_todo(request)
    \/ \E todo_id \in Ids, request \in TypedRequests : pkg_update_todo(todo_id, request)

SpecTypes == Init /\ [][NextTypes]_vars

(* C30: for every mapping payload, also one whose title, description or   *)
(* status is not a JSON string, create and update answer with success or  *)
(* with a 400 validation error, never with 500, and no stored title,      *)
(* description or status is a non-string.                                 *)
C30_ValidationTotal ==
    WroteMapping =>
        /\ resp.status # 500
        /\ \A id \in DOMAIN table :
             \A f \in {"title", "description", "status"} \cap DOMAIN table[id] :
                 table[id][f].type = "string"

====
